---- MODULE Spec2Model ----
(***************************************************************************)
(* DataMine Pro: the tolerant JSON extraction of geminiService.ts, the     *)
(* batch generator around it and the accumulation of rows and sources in   *)
(* App.tsx.                                                                *)
(*                                                                         *)
(* A text is a sequence of lexemes: "[", "]", ",", " " (any whitespace),   *)
(* "null", the object literals of ObjectTokens, "x" (a word of prose),     *)
(* "FENCE" (three backquotes) and "json" (the language tag).               *)
(***************************************************************************)
EXTENDS Integers, Sequences, FiniteSets, TLC

VARIABLES
    config,         \* App.tsx:23   useState<GeneratorConfig>
    generatedData,  \* App.tsx:30   accumulated rows
    status,         \* App.tsx:31   GenerationStatus
    sources,        \* App.tsx:32   accumulated source URLs
    error,          \* App.tsx:33   error message or null
    pending,        \* number of generateDatasetBatch calls awaiting the network
    prompt,         \* existingDataStr of the latest prompt built
    response,       \* the latest network outcome handed to a continuation
    text,           \* extractJson's argument (extraction specification)
    extracted       \* extractJson's outcome  (extraction specification)

vars == <<config, generatedData, status, sources, error, pending, prompt,
          response, text, extracted>>

appVars == <<config, generatedData, status, sources, error, pending, prompt,
             response>>

----------------------------------------------------------------------------
(* Bounds *)

MaxTextLen == 5
MaxRows == 3
MaxPending == 2

----------------------------------------------------------------------------
(* JSON values *)

Value(k, es, ps, s) == [kind |-> k, elems |-> es, props |-> ps, str |-> s]

JUndefined == Value("undefined", <<>>, <<>>, "")
JNull == Value("null", <<>>, <<>>, "")
JStr(s) == Value("string", <<>>, <<>>, s)
JArr(es) == Value("array", es, <<>>, "")
JObj(ps) == Value("object", <<>>, ps, "")

Prop(k, v) == [key |-> k, val |-> v]

\* The object literals a text can hold, each one lexeme.
ObjectTokens == {"{}", "{C:Acme,I:Tech}", "{I:Bank,C:Beta}"}

ObjectLiteral(tok) ==
    CASE tok = "{}" -> JObj(<<>>)
      [] tok = "{C:Acme,I:Tech}" ->
            JObj(<<Prop("Company", JStr("Acme")), Prop("Industry", JStr("Tech"))>>)
      [] tok = "{I:Bank,C:Beta}" ->
            JObj(<<Prop("Industry", JStr("Bank")), Prop("Company", JStr("Beta"))>>)

ArrayIsArray(v) == v.kind = "array"

----------------------------------------------------------------------------
(* JSON.parse on lexemes *)

Parsed(v, n) == [ok |-> TRUE, val |-> v, next |-> n]
NoParse == [ok |-> FALSE, val |-> JUndefined, next |-> 0]

RECURSIVE SkipWs(_, _)
SkipWs(t, i) ==
    IF i <= Len(t) /\ t[i] = " " THEN SkipWs(t, i + 1) ELSE i

RECURSIVE ParseValue(_, _)
RECURSIVE ParseElements(_, _, _)

ParseValue(t, i) ==
    LET j == SkipWs(t, i) IN
    IF j > Len(t) THEN NoParse
    ELSE IF t[j] = "null" THEN Parsed(JNull, j + 1)
    ELSE IF t[j] \in ObjectTokens THEN Parsed(ObjectLiteral(t[j]), j + 1)
    ELSE IF t[j] = "[" THEN
        LET k == SkipWs(t, j + 1) IN
        IF k <= Len(t) /\ t[k] = "]" THEN Parsed(JArr(<<>>), k + 1)
        ELSE ParseElements(t, k, <<>>)
    ELSE NoParse

ParseElements(t, i, acc) ==
    LET r == ParseValue(t, i) IN
    IF ~r.ok THEN NoParse
    ELSE LET k == SkipWs(t, r.next) IN
         IF k > Len(t) THEN NoParse
         ELSE IF t[k] = "," THEN ParseElements(t, k + 1, Append(acc, r.val))
         ELSE IF t[k] = "]" THEN Parsed(JArr(Append(acc, r.val)), k + 1)
         ELSE NoParse

\* JSON.parse(t): the whole text is one value, whitespace around it allowed.
JSONParse(t) ==
    LET r == ParseValue(t, 1) IN
    IF r.ok /\ SkipWs(t, r.next) > Len(t) THEN [ok |-> TRUE, val |-> r.val]
    ELSE [ok |-> FALSE, val |-> JUndefined]

----------------------------------------------------------------------------
(* String helpers, 0-based as in JavaScript *)

Min(S) == CHOOSE m \in S : \A n \in S : m <= n
Max(S) == CHOOSE m \in S : \A n \in S : m >= n

\* t.indexOf(c): 0-based index of the first c, -1 when there is none.
IndexOf(t, c) ==
    LET hits == {i \in 1..Len(t) : t[i] = c} IN
    IF hits = {} THEN -1 ELSE Min(hits) - 1

\* t.lastIndexOf(c)
LastIndexOf(t, c) ==
    LET hits == {i \in 1..Len(t) : t[i] = c} IN
    IF hits = {} THEN -1 ELSE Max(hits) - 1

Clamp(n, len) == IF n < 0 THEN 0 ELSE IF n > len THEN len ELSE n

\* t.substring(a, b): both ends clamped to [0, length], swapped when a > b.
Substring(t, a, b) ==
    LET ca == Clamp(a, Len(t))
        cb == Clamp(b, Len(t))
        lo == IF ca <= cb THEN ca ELSE cb
        hi == IF ca <= cb THEN cb ELSE ca
    IN SubSeq(t, lo + 1, hi)

----------------------------------------------------------------------------
\* text.match of the json-tagged fenced block: the fence marker, the tag,
\* whitespace, a lazy body, whitespace, the closing fence marker.

NoMatch == [found |-> FALSE, body |-> <<>>]

FenceMatch(t) ==
    LET opens == {i \in 1..Len(t) :
                    /\ t[i] = "FENCE"
                    /\ i + 1 <= Len(t)
                    /\ t[i + 1] = "json"
                    /\ \E k \in (i + 2)..Len(t) : t[k] = "FENCE"}
    IN IF opens = {} THEN NoMatch
       ELSE LET i == Min(opens)
                bodyStart == SkipWs(t, i + 2)
                close == Min({k \in bodyStart..Len(t) : t[k] = "FENCE"})
                bodyEnd == Min({p \in bodyStart..close :
                                  \A q \in p..(close - 1) : t[q] = " "})
            IN [found |-> TRUE, body |-> SubSeq(t, bodyStart, bodyEnd - 1)]

----------------------------------------------------------------------------
(* extractJson *)

ParseErrorMessage == "Could not parse dataset from response."

Returned(v) == [ok |-> TRUE, val |-> v, err |-> ""]
Thrown(msg) == [ok |-> FALSE, val |-> JUndefined, err |-> msg]

NotRun == [ok |-> FALSE, val |-> JUndefined, err |-> "<not run>"]

\* Third attempt: find first [ and last ]
BracketSlice(t) ==
    LET start == IndexOf(t, "[")
        end == LastIndexOf(t, "]")
    IN IF start # -1 /\ end # -1
       THEN LET p == JSONParse(Substring(t, start, end + 1)) IN
            IF p.ok THEN Returned(p.val) ELSE Thrown(ParseErrorMessage)
       ELSE Thrown(ParseErrorMessage)

\* Second attempt: extract from markdown code blocks
FencedBlock(t) ==
    LET match == FenceMatch(t) IN
    IF match.found /\ match.body # <<>>
    THEN LET p == JSONParse(match.body) IN
         IF p.ok THEN Returned(p.val) ELSE BracketSlice(t)
    ELSE BracketSlice(t)

extractJson(t) ==
    LET p == JSONParse(t) IN
    IF p.ok THEN Returned(p.val) ELSE FencedBlock(t)

----------------------------------------------------------------------------
(* Request Builder: the part of the prompt that depends on the state *)

SampleSize == 5

PromptTypeError == "Cannot convert undefined or null to object"

\* Object.values(d): own property values in insertion order; the elements of an
\* array; nothing for a boolean or a number. (null throws, see HasNullRow.)
ObjectValues(d) ==
    IF d.kind = "object" THEN [i \in 1..Len(d.props) |-> d.props[i].val]
    ELSE IF d.kind = "array" THEN d.elems
    ELSE <<>>

\* Object.values(d)[0]
FirstValue(d) ==
    IF Len(ObjectValues(d)) > 0 THEN ObjectValues(d)[1] ELSE JUndefined

\* s.slice(-n)
SliceLast(s, n) ==
    IF Len(s) <= n THEN s ELSE SubSeq(s, Len(s) - n + 1, Len(s))

\* JSON.stringify of an array writes undefined as null.
JSONStringify(s) ==
    [i \in 1..Len(s) |-> IF s[i] = JUndefined THEN JNull ELSE s[i]]

NoExisting == [present |-> FALSE, sample |-> <<>>]

existingDataStr(currentData) ==
    IF Len(currentData) > 0
    THEN [present |-> TRUE,
          sample |-> JSONStringify(SliceLast(
                        [i \in 1..Len(currentData) |-> FirstValue(currentData[i])],
                        SampleSize))]
    ELSE NoExisting

\* Object.values(null) throws a TypeError while the prompt is built.
HasNullRow(currentData) ==
    \E i \in 1..Len(currentData) : currentData[i].kind = "null"

BuildPrompt(cfg, currentData) ==
    [topic |-> cfg.topic,
     columnNames |-> cfg.columns,
     existing |-> existingDataStr(currentData)]

NoPrompt == [topic |-> "", columnNames |-> <<>>, existing |-> NoExisting]

----------------------------------------------------------------------------
(* Batch Generator *)

NotArrayMessage == "Response was not a JSON array"

Chunk(hasWeb, u) == [web |-> hasWeb, uri |-> u]

\* What the network call settles with: a response (ok) carrying an optional
\* text and optional grounding chunks, or a thrown error with its message.
Resolved(hasText, t, grounded, cs) ==
    [ok |-> TRUE, hasText |-> hasText, text |-> t, grounded |-> grounded,
     chunks |-> cs, message |-> ""]
Rejected(msg) ==
    [ok |-> FALSE, hasText |-> FALSE, text |-> <<>>, grounded |-> FALSE,
     chunks |-> <<>>, message |-> msg]

NoResponse == Rejected("<none>")

RECURSIVE Unique(_)
\* [...new Set(s)]: the first occurrence of each element, in order.
Unique(s) ==
    IF s = <<>> THEN <<>>
    ELSE LET init == Unique(SubSeq(s, 1, Len(s) - 1))
             last == s[Len(s)]
         IN IF \E i \in 1..Len(init) : init[i] = last THEN init
            ELSE Append(init, last)

\* Mutant of ResponseText: no default for an empty or absent text.
ResponseText_NoDefault(resp) == resp.text

\* response.text || "[]"
ResponseText(resp) ==
    IF resp.hasText /\ resp.text # <<>> THEN resp.text ELSE <<"[", "]">>

\* groundingChunks.map(chunk => chunk.web?.uri).filter(uri => !!uri)
ChunkUris(resp) ==
    LET groundingChunks == IF resp.grounded THEN resp.chunks ELSE <<>>
        keep(c) == c.web /\ c.uri # ""
        kept == SelectSeq(groundingChunks, keep)
    IN [i \in 1..Len(kept) |-> kept[i].uri]

BatchResult(d, srcs) == [ok |-> TRUE, data |-> d, sources |-> srcs, err |-> ""]
BatchFailure(msg) == [ok |-> FALSE, data |-> <<>>, sources |-> <<>>, err |-> msg]

\* Mutant of generateDatasetBatch: a value that is not an array is wrapped
\* into a one-row batch instead of being refused.
generateDatasetBatch_Wraps(resp) ==
    IF ~resp.ok THEN BatchFailure(resp.message)
    ELSE LET newData == extractJson(ResponseText(resp)) IN
         IF ~newData.ok THEN BatchFailure(newData.err)
         ELSE IF ~ArrayIsArray(newData.val)
         THEN BatchResult(<<newData.val>>, Unique(ChunkUris(resp)))
         ELSE BatchResult(newData.val.elems, Unique(ChunkUris(resp)))

\* Mutant of generateDatasetBatch: the Array.isArray check is left out.
generateDatasetBatch_NoShapeCheck(resp) ==
    IF ~resp.ok THEN BatchFailure(resp.message)
    ELSE LET newData == extractJson(ResponseText(resp)) IN
         IF ~newData.ok THEN BatchFailure(newData.err)
         ELSE BatchResult(newData.val.elems, Unique(ChunkUris(resp)))

\* generateDatasetBatch from the point where the network call has settled.
generateDatasetBatch(resp) ==
    IF ~resp.ok THEN BatchFailure(resp.message)
    ELSE LET newData == extractJson(ResponseText(resp)) IN
         IF ~newData.ok THEN BatchFailure(newData.err)
         ELSE IF ~ArrayIsArray(newData.val) THEN BatchFailure(NotArrayMessage)
         ELSE BatchResult(newData.val.elems, Unique(ChunkUris(resp)))

----------------------------------------------------------------------------
(* App *)

INITIAL_COLUMNS == <<"Company", "Revenue (2023)", "Industry", "Headquarters">>

InitialTopic == "Top Tech Companies 2024"

NoTopicMessage == "Please specify a topic."
DefaultErrorMessage == "Failed to generate dataset. Please try again."

Null == "<null>"

Topics == {"", InitialTopic}

UrlA == "https://a.com"
UrlB == "https://b.com"

RowA == "{C:Acme,I:Tech}"
RowB == "{I:Bank,C:Beta}"

\* The outcomes of the network call that the model lets arrive.
Responses ==
    { Resolved(TRUE, <<"[", RowA, ",", RowB, "]">>, TRUE,
               <<Chunk(TRUE, UrlA), Chunk(TRUE, UrlA), Chunk(TRUE, UrlB)>>),
      Resolved(TRUE, <<"x", "[", RowB, "]", "x">>, TRUE,
               <<Chunk(TRUE, UrlB), Chunk(TRUE, ""), Chunk(FALSE, "")>>),
      Resolved(TRUE, <<"FENCE", "json", " ", "[", RowA, "]", " ", "FENCE">>, FALSE, <<>>),
      Resolved(TRUE, <<"[", "null", "]">>, FALSE, <<>>),
      Resolved(TRUE, <<>>, TRUE, <<Chunk(TRUE, UrlA)>>),
      Resolved(FALSE, <<>>, FALSE, <<>>),
      Resolved(TRUE, <<RowA>>, TRUE, <<Chunk(TRUE, UrlB)>>),
      Resolved(TRUE, <<"]", "null", "[">>, FALSE, <<>>),
      Resolved(TRUE, <<"x">>, TRUE, <<Chunk(TRUE, UrlA)>>),
      Rejected("Failed to fetch"),
      Rejected("") }

Init ==
    /\ config = [topic |-> InitialTopic, columns |-> INITIAL_COLUMNS]
    /\ generatedData = <<>>
    /\ status = "IDLE"
    /\ sources = <<>>
    /\ error = Null
    /\ pending = 0
    /\ prompt = NoPrompt
    /\ response = NoResponse
    /\ text = <<>>
    /\ extracted = NotRun

\* onChange of the topic input, and the suggested-topic buttons.
setTopic(t) ==
    /\ config' = [config EXCEPT !.topic = t]
    /\ UNCHANGED <<generatedData, status, sources, error, pending, prompt,
                   response, text, extracted>>

\* handleGenerate up to its await. The Generate button is disabled while
\* status is GENERATING.
handleGenerate ==
    /\ status # "GENERATING"
    /\ IF config.topic = ""
       THEN /\ error' = NoTopicMessage
            /\ UNCHANGED <<status, pending, prompt>>
       ELSE IF HasNullRow(generatedData)
       THEN \* generateDatasetBatch throws while building the prompt
            /\ error' = PromptTypeError
            /\ status' = "ERROR"
            /\ UNCHANGED <<pending, prompt>>
       ELSE /\ pending < MaxPending
            /\ status' = "GENERATING"
            /\ error' = Null
            /\ prompt' = BuildPrompt(config, generatedData)
            /\ pending' = pending + 1
    /\ UNCHANGED <<config, generatedData, sources, response, text, extracted>>

\* Mutant of Accumulate: rows already present are skipped.
Accumulate_Dedup(prev, data) == Unique(prev \o data)

\* setGeneratedData(prev => [...prev, ...result.data])
Accumulate(prev, data) == prev \o data

\* Mutant of MergeSources: the Set is forgotten.
MergeSources_NoSet(prev, srcs) == prev \o srcs

\* setSources(prev => [...new Set([...prev, ...result.sources])])
MergeSources(prev, srcs) == Unique(prev \o srcs)

\* setError(err.message || "Failed to generate dataset. Please try again.")
ErrorText(msg) == IF msg = "" THEN DefaultErrorMessage ELSE msg

\* Mutant of handleGenerateSettled: the catch branch resets the dataset.
handleGenerateSettled_ResetsOnError(resp) ==
    /\ pending > 0
    /\ pending' = pending - 1
    /\ response' = resp
    /\ LET result == generateDatasetBatch(resp) IN
       IF result.ok
       THEN /\ Len(generatedData) + Len(result.data) <= MaxRows
            /\ generatedData' = Accumulate(generatedData, result.data)
            /\ sources' = MergeSources(sources, result.sources)
            /\ status' = "COMPLETE"
            /\ UNCHANGED error
       ELSE /\ error' = ErrorText(result.err)
            /\ status' = "ERROR"
            /\ generatedData' = <<>>
            /\ sources' = <<>>
    /\ UNCHANGED <<config, prompt, text, extracted>>

\* handleGenerate from its await on: the network call of one pending request
\* settles with resp.
handleGenerateSettled(resp) ==
    /\ pending > 0
    /\ pending' = pending - 1
    /\ response' = resp
    /\ LET result == generateDatasetBatch(resp) IN
       IF result.ok
       THEN /\ Len(generatedData) + Len(result.data) <= MaxRows
            /\ generatedData' = Accumulate(generatedData, result.data)
            /\ sources' = MergeSources(sources, result.sources)
            /\ status' = "COMPLETE"
            /\ UNCHANGED error
       ELSE /\ error' = ErrorText(result.err)
            /\ status' = "ERROR"
            /\ UNCHANGED <<generatedData, sources>>
    /\ UNCHANGED <<config, prompt, text, extracted>>

\* The Clear Data button is rendered only while there are rows.
handleClear ==
    /\ Len(generatedData) > 0
    /\ generatedData' = <<>>
    /\ sources' = <<>>
    /\ status' = "IDLE"
    /\ error' = Null
    /\ UNCHANGED <<config, pending, prompt, response, text, extracted>>

Next ==
    \/ \E t \in Topics : setTopic(t)
    \/ handleGenerate
    \/ \E resp \in Responses : handleGenerateSettled(resp)
    \/ handleClear

Spec == Init /\ [][Next]_vars

----------------------------------------------------------------------------
(* Claims about the App specification (Spec) *)

ToSet(s) == {s[i] : i \in 1..Len(s)}

NoDuplicates(s) == \A i, j \in 1..Len(s) : s[i] = s[j] => i = j

\* A step in which the network call of a pending request settled.
Settled == pending' < pending

\* C1: a generation call that fails leaves the accumulated rows and sources
\* as they were; it ends in status ERROR with the failure's message, and every
\* step that ends in ERROR leaves rows and sources untouched.
C1_FailureNonDestructive ==
    [][ /\ (Settled /\ ~generateDatasetBatch(response').ok) =>
              /\ status' = "ERROR"
              /\ error' = ErrorText(generateDatasetBatch(response').err)
              /\ config' = config
        /\ (status' = "ERROR" \/ (Settled /\ ~generateDatasetBatch(response').ok)) =>
              /\ generatedData' = generatedData
              /\ sources' = sources ]_vars

\* C1 witness: a call failed after an earlier successful one, rows and sources
\* still there.
C1_Witness ==
    /\ status = "ERROR"
    /\ response # NoResponse
    /\ ~generateDatasetBatch(response).ok
    /\ Len(generatedData) > 0
    /\ Len(sources) > 0

\* The batches the responses of the model carry.
ResponseBatches == {generateDatasetBatch(r).data : r \in Responses}

\* C2: rows only ever change by a successful call appending its batch, in
\* order and without deduplication, or by Clear emptying them; accumulating two
\* batches one after the other equals accumulating their concatenation.
C2_AdditiveOrderPreserving ==
    [][ /\ (Settled /\ generateDatasetBatch(response').ok) =>
              generatedData' = generatedData \o generateDatasetBatch(response').data
        /\ \/ generatedData' = generatedData
           \/ Settled /\ generateDatasetBatch(response').ok
           \/ generatedData' = <<>> /\ status' = "IDLE" /\ ~Settled
        /\ \A b1, b2 \in ResponseBatches :
              Accumulate(Accumulate(generatedData, b1), b2)
                 = Accumulate(generatedData, b1 \o b2) ]_vars

\* C2 witness: three rows from two batches, the first row repeated by the
\* second batch.
C2_Witness ==
    generatedData = <<ObjectLiteral(RowA), ObjectLiteral(RowB), ObjectLiteral(RowA)>>

\* C3: the accumulated sources never hold the same string twice, and a
\* successful call leaves exactly the union of the prior sources and the
\* batch's sources.
C3_SourcesAreASet ==
    /\ [](NoDuplicates(sources))
    /\ [][ (Settled /\ generateDatasetBatch(response').ok) =>
              ToSet(sources') =
                 ToSet(sources) \cup ToSet(generateDatasetBatch(response').sources) ]_vars

\* C3 witness: b from one batch, then a, a, b from another: two entries.
C3_Witness ==
    /\ sources = <<UrlB, UrlA>>
    /\ response.ok
    /\ Len(response.chunks) = 3
    /\ status = "COMPLETE"

\* C4 (as claimed): at most one generation request is in flight.
C4_AtMostOneInFlight == pending <= 1

EmptyBody(resp) == resp.ok /\ (~resp.hasText \/ resp.text = <<>>)

\* C9: a response with an empty or absent text does not fail: the caller ends
\* in COMPLETE, its rows and error unchanged, its sources joined with the URLs
\* of the citation metadata.
C9_EmptyTextIsEmptyBatch ==
    [][ (Settled /\ EmptyBody(response')) =>
          /\ generateDatasetBatch(response').ok
          /\ generateDatasetBatch(response').data = <<>>
          /\ status' = "COMPLETE"
          /\ generatedData' = generatedData
          /\ error' = error
          /\ ToSet(sources') = ToSet(sources) \cup ToSet(ChunkUris(response')) ]_vars

\* C9 witness: an empty body arrived while rows existed.
C9_Witness ==
    /\ EmptyBody(response)
    /\ status = "COMPLETE"
    /\ Len(generatedData) > 0
    /\ Len(sources) > 0

\* row[key]: the value stored under key, undefined when the row has none.
Lookup(row, key) ==
    LET hits == {i \in 1..Len(row.props) : row.props[i].key = key} IN
    IF row.kind = "object" /\ hits # {} THEN row.props[Max(hits)].val
    ELSE JUndefined

\* The sample as C10 describes it: the first configured column of each of the
\* last SampleSize rows.
ClaimedExistingDataStr(cfg, rows) ==
    IF Len(rows) > 0
    THEN [present |-> TRUE,
          sample |-> JSONStringify(SliceLast(
                        [i \in 1..Len(rows) |-> Lookup(rows[i], cfg.columns[1])],
                        SampleSize))]
    ELSE NoExisting

\* C10 (as claimed): whenever a prompt is built, its sample is the value of
\* config.columns[0].name in each of the last 5 existing rows, in row order,
\* and there is no sample when there are no rows.
C10_SampleIsFirstConfiguredColumn ==
    [][ (pending' > pending) =>
           prompt'.existing = ClaimedExistingDataStr(config, generatedData) ]_vars

\* status is IDLE with a request pending only after handleClear ran while the
\* request was in flight and before any later handleGenerate sent another one:
\* every request pending in such a state was started before the Clear.
ClearedWhilePending == status = "IDLE" /\ pending > 0

\* C11 (as claimed): the outcome of a request started before a Clear is
\* discarded: when it settles, rows and sources stay empty and the status does
\* not become COMPLETE or ERROR.
C11_ClearDiscardsPendingOutcome ==
    [][ (ClearedWhilePending /\ Settled) =>
           /\ generatedData' = <<>>
           /\ sources' = <<>>
           /\ status' \notin {"COMPLETE", "ERROR"} ]_vars

----------------------------------------------------------------------------
(* The extraction specification: extractJson applied to every text of at   *)
(* most MaxTextLen lexemes.                                                *)

Alphabet == {"[", "]", ",", " ", "null", "{}", "x", "FENCE", "json"}

BoundedSeq(S, n) == UNION {[1..k -> S] : k \in 0..n}

Texts == BoundedSeq(Alphabet, MaxTextLen)

InitExtract ==
    /\ config = [topic |-> InitialTopic, columns |-> INITIAL_COLUMNS]
    /\ generatedData = <<>>
    /\ status = "IDLE"
    /\ sources = <<>>
    /\ error = Null
    /\ pending = 0
    /\ prompt = NoPrompt
    /\ response = NoResponse
    /\ text \in Texts
    /\ extracted = NotRun

ExtractStep ==
    /\ extracted = NotRun
    /\ extracted' = extractJson(text)
    /\ UNCHANGED <<text, appVars>>

NextExtract == ExtractStep

SpecExtract == InitExtract /\ [][NextExtract]_vars

----------------------------------------------------------------------------
(* Claims about extractJson (SpecExtract) *)

HasRun == extracted # NotRun

\* The bracket-slice tier as C6 describes it: a candidate only when both
\* brackets exist and the first [ precedes the last ].
ClaimedBracketSlice(t) ==
    LET start == IndexOf(t, "[")
        end == LastIndexOf(t, "]")
    IN IF start # -1 /\ end # -1 /\ start < end
       THEN LET p == JSONParse(SubSeq(t, start + 1, end + 1)) IN
            IF p.ok THEN Returned(p.val) ELSE Thrown(ParseErrorMessage)
       ELSE Thrown(ParseErrorMessage)

\* The fenced-block tier yields a value.
FencedBlockParses(t) ==
    /\ FenceMatch(t).found
    /\ FenceMatch(t).body # <<>>
    /\ JSONParse(FenceMatch(t).body).ok

\* The three tiers as C5 describes them.
ClaimedExtract(t) ==
    IF JSONParse(t).ok THEN Returned(JSONParse(t).val)
    ELSE IF FencedBlockParses(t) THEN Returned(JSONParse(FenceMatch(t).body).val)
    ELSE ClaimedBracketSlice(t)

\* C5 (as claimed): extractJson returns the value of the first of the three
\* tiers whose candidate exists and parses, and fails with the parse error
\* exactly when none does.
C5_ThreeTierFallback ==
    HasRun => extracted = ClaimedExtract(text)

\* C6 (as claimed): when the first two tiers yield nothing, the outcome is that
\* of the guarded bracket slice: the inclusive substring from the first [ to
\* the last ] when the first precedes the last, the parse error otherwise.
C6_BracketSliceGuarded ==
    (HasRun /\ ~JSONParse(text).ok /\ ~FencedBlockParses(text)) =>
        extracted = ClaimedBracketSlice(text)

Candidates(t) ==
    {t}
    \cup (IF FenceMatch(t).found THEN {FenceMatch(t).body} ELSE {})
    \cup (IF IndexOf(t, "[") # -1 /\ LastIndexOf(t, "]") # -1
          THEN {Substring(t, IndexOf(t, "["), LastIndexOf(t, "]") + 1)}
          ELSE {})

----------------------------------------------------------------------------
(* The schema specification: the column handlers of App.tsx, starting from *)
(* the initial state. They write config.columns only, and no other handler *)
(* writes it.                                                              *)

MaxColumns == 5

\* `Column ${prev.columns.length + 1}`
ColumnLabels ==
    <<"Column 1", "Column 2", "Column 3", "Column 4", "Column 5",
      "Column 6", "Column 7", "Column 8">>

ColumnLabel(n) == ColumnLabels[n]

\* The values typed into a column's name input.
RenameValues == {"", "Name"}

\* columns.filter((_, i) => i !== index), index counted from 0
WithoutIndex(columns, index) ==
    IF index < 0 \/ index >= Len(columns) THEN columns
    ELSE [i \in 1..(Len(columns) - 1) |->
             IF i <= index THEN columns[i] ELSE columns[i + 1]]

\* Mutant of RemoveColumn: the early return is left out.
RemoveColumn_NoGuard(cfg, index) ==
    [cfg EXCEPT !.columns = WithoutIndex(cfg.columns, index)]

\* What handleRemoveColumn(index) makes of the configuration.
RemoveColumn(cfg, index) ==
    IF Len(cfg.columns) <= 1 THEN cfg
    ELSE [cfg EXCEPT !.columns = WithoutIndex(cfg.columns, index)]

handleAddColumn ==
    /\ Len(config.columns) < MaxColumns
    /\ config' = [config EXCEPT
                    !.columns = Append(@, ColumnLabel(Len(config.columns) + 1))]
    /\ UNCHANGED <<generatedData, status, sources, error, pending, prompt,
                   response, text, extracted>>

\* One trash button per rendered column.
handleRemoveColumn(index) ==
    /\ index \in 0..(Len(config.columns) - 1)
    /\ config' = RemoveColumn(config, index)
    /\ UNCHANGED <<generatedData, status, sources, error, pending, prompt,
                   response, text, extracted>>

\* One name input per rendered column.
handleColumnChange(index, value) ==
    /\ index \in 0..(Len(config.columns) - 1)
    /\ config' = [config EXCEPT !.columns[index + 1] = value]
    /\ UNCHANGED <<generatedData, status, sources, error, pending, prompt,
                   response, text, extracted>>

NextSchema ==
    \/ handleAddColumn
    \/ \E index \in 0..(MaxColumns - 1) : handleRemoveColumn(index)
    \/ \E index \in 0..(MaxColumns - 1), value \in RenameValues :
          handleColumnChange(index, value)

SpecSchema == Init /\ [][NextSchema]_vars

\* C12: the schema always holds at least one column, and with one column left
\* a remove request leaves the configuration as it is.
C12_SchemaNeverEmpty ==
    /\ Len(config.columns) >= 1
    /\ Len(config.columns) = 1 =>
          \A index \in 0..(MaxColumns - 1) : RemoveColumn(config, index) = config

\* C12 witness: columns were removed down to the last one, which was renamed
\* to the empty string.
C12_Witness ==
    config.columns = <<"">>

====
